---- MODULE Spec2Model ----
(***************************************************************************)
(* A model of the Oscribble MCP server: the task-tree operations of        *)
(* utils.ts (findTaskById) and of the server's handlers (status filter,    *)
(* set-checked, raw append), and the files they read and write under the   *)
(* storage root (projects.json, <project>/notes.json, <project>/raw.txt).  *)
(***************************************************************************)
EXTENDS Naturals, Sequences, FiniteSets, TLC

\* ------------------------------------------------------------------ bounds

\* Largest number of task nodes in a forest drawn as an input.
MaxNodes == 3

\* Largest number of task nodes in a notes.json document of the file store.
MaxDocNodes == 2

\* Number of set-checked requests the server is sent.
MaxRequests == 1

\* Number of append requests the server is sent.
MaxAppends == 2

\* Number of writes by the Oscribble application while the server runs.
MaxExt == 1

\* Number of file-system calls that fail.
MaxFaults == 2

\* Number of requests of any tool the server is sent, one after the other.
MaxCalls == 2

\* Largest number of projects in a registry drawn as an input.
MaxProjects == 2

\* ------------------------------------------------------------------- state

\* calc:  one application of the tree operations to a drawn forest.
\* files: the regular files under the storage root, path -> content; a path
\*        is <<directory, name>>, the storage root being directory "".
\* dirs:  the project directories that exist under the storage root.
\* h:     per request slot, the request being handled, the handler's place
\*        and locals, and its result.
\* left:  how many requests, application writes and failures are still to come.
\* seen:  what the concurrent reader last read from a notes.json.
VARIABLES calc, files, dirs, h, left, seen

vars == <<calc, files, dirs, h, left, seen>>

\* ------------------------------------------------------------- task forests

\* Task ids (UUIDs in the program); a request may name any of them.
Ids == {"a", "b", "c"}

\* The text of the task with a given id.
TextOf(id) == "task " \o id

\* The metadata of the task with a given id: an optional field is a sequence,
\* empty when the field is absent. Task b has metadata, with a priority.
MetadataOf(id) == IF id = "b" THEN <<"feature">> ELSE <<>>

\* TaskNode: id, text, checked, indent, children, metadata.
TaskNode(id, checked, indent, children) ==
    [id |-> id, text |-> TextOf(id), checked |-> checked, indent |-> indent,
     children |-> children, metadata |-> MetadataOf(id)]

\* All forests of exactly n nodes with ids in `ids`, whose top level has
\* indent d.
RECURSIVE ForestsOfSize(_, _, _)
ForestsOfSize(ids, n, d) ==
    IF n = 0 THEN {<<>>}
    ELSE UNION {
           { <<TaskNode(id, ck, d, ch)>> \o rest :
                id \in ids, ck \in BOOLEAN,
                ch \in ForestsOfSize(ids, k - 1, d + 1),
                rest \in ForestsOfSize(ids, n - k, d) } : k \in 1..n }

Forests == UNION { ForestsOfSize(Ids, n, 0) : n \in 0..MaxNodes }

\* FilterStatus = "all" | "unchecked" | "checked".
FilterStatus == {"all", "unchecked", "checked"}

\* -------------------------------------------------- paths (model of references)

\* A node of a forest is referred to by its path: the index of a top-level
\* node, then the index among its children, and so on.
RECURSIVE Paths(_)
Paths(tasks) ==
    UNION { {<<i>>} \cup { <<i>> \o p : p \in Paths(tasks[i].children) } :
            i \in 1..Len(tasks) }

RECURSIVE NodeAt(_, _)
NodeAt(tasks, p) ==
    IF Len(p) = 1 THEN tasks[p[1]]
    ELSE NodeAt(tasks[p[1]].children, Tail(p))

\* The sibling sequence that directly contains the node at path p.
SiblingsAt(tasks, p) ==
    IF Len(p) = 1 THEN tasks
    ELSE NodeAt(tasks, SubSeq(p, 1, Len(p) - 1)).children

IsPrefix(p, q) == Len(p) <= Len(q) /\ SubSeq(q, 1, Len(p)) = p

\* p comes before q in depth-first pre-order: p is a proper prefix of q, or
\* at the first index where they differ p's index is the smaller.
Before(p, q) ==
    \/ (IsPrefix(p, q) /\ p # q)
    \/ \E k \in 1..Len(p) :
          /\ k <= Len(q)
          /\ SubSeq(p, 1, k - 1) = SubSeq(q, 1, k - 1)
          /\ p[k] < q[k]

\* ------------------------------------------------------------- findTaskById

\* null, the result of a search that found nothing.
null == <<>>

\* Mutant of findTaskById's recursion: the result of the search in the first
\* node with children is returned also when it is null.
RECURSIVE findEarlyReturn(_, _, _)
findEarlyReturn(tasks, taskId, i) ==
    IF i > Len(tasks) THEN null
    ELSE LET task == tasks[i] IN
         IF task.id = taskId
         THEN <<[task |-> task, tasks |-> tasks, at |-> <<i>>]>>
         ELSE IF Len(task.children) > 0
              THEN LET result == findEarlyReturn(task.children, taskId, 1) IN
                   IF result # null
                   THEN <<[result[1] EXCEPT !.at = <<i>> \o @]>>
                   ELSE null
              ELSE findEarlyReturn(tasks, taskId, i + 1)

\* Mutant of findTaskById's loop: a task's children are searched before the
\* task itself is tested.
RECURSIVE findChildrenFirst(_, _, _)
findChildrenFirst(tasks, taskId, i) ==
    IF i > Len(tasks) THEN null
    ELSE LET task == tasks[i]
             result == IF Len(task.children) > 0
                       THEN findChildrenFirst(task.children, taskId, 1)
                       ELSE null
         IN IF result # null
            THEN <<[result[1] EXCEPT !.at = <<i>> \o @]>>
            ELSE IF task.id = taskId
                 THEN <<[task |-> task, tasks |-> tasks, at |-> <<i>>]>>
                 ELSE findChildrenFirst(tasks, taskId, i + 1)

\* A search that returns the sequence it was first called with instead of
\* the sequence in which the task was found.
RECURSIVE findReturnsForest(_, _, _)
findReturnsForest(tasks, taskId, i) ==
    IF i > Len(tasks) THEN null
    ELSE LET task == tasks[i] IN
         IF task.id = taskId
         THEN <<[task |-> task, tasks |-> tasks, at |-> <<i>>]>>
         ELSE LET result == IF Len(task.children) > 0
                            THEN findReturnsForest(task.children, taskId, 1)
                            ELSE null
              IN IF result # null
                 THEN <<[result[1] EXCEPT !.at = <<i>> \o @, !.tasks = tasks]>>
                 ELSE findReturnsForest(tasks, taskId, i + 1)

\* The for loop of findTaskById from the i-th task on. A result is the pair
\* [task, tasks] of the code; `at` is the path of the node in the searched
\* forest and stands for the identity of the returned object reference.
RECURSIVE findLoop(_, _, _)
findLoop(tasks, taskId, i) ==
    IF i > Len(tasks) THEN null
    ELSE LET task == tasks[i] IN
         IF task.id = taskId
         THEN <<[task |-> task, tasks |-> tasks, at |-> <<i>>]>>
         ELSE LET result == IF Len(task.children) > 0
                            THEN findLoop(task.children, taskId, 1)
                            ELSE null
              IN IF result # null
                 THEN <<[result[1] EXCEPT !.at = <<i>> \o @]>>
                 ELSE findLoop(tasks, taskId, i + 1)

findTaskById(tasks, taskId) == findLoop(tasks, taskId, 1)

\* Every task of a forest with checked set to `complete`.
RECURSIVE checkAll(_, _)
checkAll(tasks, complete) ==
    [i \in 1..Len(tasks) |->
        [tasks[i] EXCEPT !.checked = complete,
                         !.children = checkAll(@, complete)]]

\* Mutant of assignChecked: the task's descendants are assigned as well.
RECURSIVE assignCheckedCascade(_, _, _)
assignCheckedCascade(tasks, at, complete) ==
    IF Len(at) = 1
    THEN [tasks EXCEPT ![at[1]].checked = complete,
                       ![at[1]].children = checkAll(@, complete)]
    ELSE [tasks EXCEPT ![at[1]].children =
                          assignCheckedCascade(@, Tail(at), complete)]

\* task.checked = complete, on the node the reference `at` points to.
RECURSIVE assignChecked(_, _, _)
assignChecked(tasks, at, complete) ==
    IF Len(at) = 1
    THEN [tasks EXCEPT ![at[1]].checked = complete]
    ELSE [tasks EXCEPT ![at[1]].children =
                          assignChecked(@, Tail(at), complete)]

\* ------------------------------------------------------- the status filter

\* Mutant of shouldIncludeTask: the two statuses are swapped.
shouldIncludeSwapped(task, filterStatus) ==
    IF filterStatus = "all" THEN TRUE
    ELSE LET checked == task.checked IN
         \/ (filterStatus = "checked" /\ ~checked)
         \/ (filterStatus = "unchecked" /\ checked)

\* shouldIncludeTask of handleListTasks.
shouldIncludeTask(task, filterStatus) ==
    IF filterStatus = "all" THEN TRUE
    ELSE LET checked == task.checked IN
         \/ (filterStatus = "checked" /\ checked)
         \/ (filterStatus = "unchecked" /\ ~checked)

\* Mutant of filterTasksRecursive's loop: a task is kept only when it matches
\* itself, so an ancestor that does not match is dropped with its subtree.
RECURSIVE filterNoAncestors(_, _, _, _)
filterNoAncestors(taskList, filterStatus, i, filtered) ==
    IF i > Len(taskList) THEN filtered
    ELSE LET t0 == taskList[i]
             task == IF Len(t0.children) > 0
                     THEN [t0 EXCEPT !.children =
                              filterNoAncestors(@, filterStatus, 1, <<>>)]
                     ELSE t0
         IN filterNoAncestors(taskList, filterStatus, i + 1,
               IF shouldIncludeTask(task, filterStatus)
               THEN Append(filtered, task) ELSE filtered)

\* Mutant of filterTasksRecursive's loop: whether a task has children is
\* tested on the children it had before they were filtered.
RECURSIVE filterTestBeforePrune(_, _, _, _)
filterTestBeforePrune(taskList, filterStatus, i, filtered) ==
    IF i > Len(taskList) THEN filtered
    ELSE LET t0 == taskList[i]
             task == IF Len(t0.children) > 0
                     THEN [t0 EXCEPT !.children =
                              filterTestBeforePrune(@, filterStatus, 1, <<>>)]
                     ELSE t0
         IN filterTestBeforePrune(taskList, filterStatus, i + 1,
               IF shouldIncludeTask(task, filterStatus) \/ Len(t0.children) > 0
               THEN Append(filtered, task) ELSE filtered)

\* The for loop of filterTasksRecursive from the i-th task on; `filtered` is
\* the array built so far. A task's children are filtered first and assigned
\* to task.children; the task is pushed when it matches or still has children.
RECURSIVE filterLoop(_, _, _, _)
filterLoop(taskList, filterStatus, i, filtered) ==
    IF i > Len(taskList) THEN filtered
    ELSE LET t0 == taskList[i]
             task == IF Len(t0.children) > 0
                     THEN [t0 EXCEPT !.children =
                              filterLoop(@, filterStatus, 1, <<>>)]
                     ELSE t0
         IN filterLoop(taskList, filterStatus, i + 1,
               IF shouldIncludeTask(task, filterStatus) \/ Len(task.children) > 0
               THEN Append(filtered, task) ELSE filtered)

filterTasksRecursive(taskList, filterStatus) ==
    filterLoop(taskList, filterStatus, 1, <<>>)

\* if (filterStatus !== "all") tasks = filterTasksRecursive(tasks)
applyFilter(tasks, filterStatus) ==
    IF filterStatus # "all" THEN filterTasksRecursive(tasks, filterStatus)
    ELSE tasks

\* The loaded forest after applyFilter: task.children = filterTasksRecursive(
\* task.children) has replaced the children of every task the loop visited,
\* while the top-level array of the document itself is left as it was.
prunedInPlace(tasks, filterStatus) ==
    IF filterStatus = "all" THEN tasks
    ELSE [i \in 1..Len(tasks) |->
             [tasks[i] EXCEPT !.children = filterTasksRecursive(@, filterStatus)]]

\* --------------------------------------------- the tree operations, applied

\* calc holds one application of the tree operations to a drawn forest:
\* the input, the operation's arguments and its results.

NoCalc ==
    [pc |-> "off", tasks |-> <<>>, taskId |-> "", complete |-> FALSE,
     filterStatus |-> "all", found |-> null, updated |-> <<>>,
     filtered |-> <<>>, refiltered |-> <<>>]

CalcInit == \E f \in Forests : calc = [NoCalc EXCEPT !.pc = "input", !.tasks = f]

\* findTaskById(tasks, taskId)
CalcFind ==
    /\ calc.pc = "input"
    /\ \E x \in Ids :
          calc' = [calc EXCEPT !.pc = "found", !.taskId = x,
                               !.found = findTaskById(calc.tasks, x)]
    /\ UNCHANGED <<files, dirs, h, left, seen>>

\* The search and the assignment of handleCompleteTask on the loaded forest.
CalcComplete ==
    /\ calc.pc = "input"
    /\ \E x \in Ids, b \in BOOLEAN :
          LET result == findTaskById(calc.tasks, x) IN
          /\ result # null
          /\ calc' = [calc EXCEPT !.pc = "set", !.taskId = x, !.complete = b,
                          !.found = result,
                          !.updated = assignChecked(calc.tasks, result[1].at, b)]
    /\ UNCHANGED <<files, dirs, h, left, seen>>

\* The filter of handleListTasks.
CalcFilter ==
    /\ calc.pc = "input"
    /\ \E s \in FilterStatus :
          calc' = [calc EXCEPT !.pc = "filtered", !.filterStatus = s,
                               !.filtered = applyFilter(calc.tasks, s)]
    /\ UNCHANGED <<files, dirs, h, left, seen>>

\* The same filter applied to the forest the filter returned.
CalcRefilter ==
    /\ calc.pc = "filtered"
    /\ calc' = [calc EXCEPT !.pc = "refiltered",
                    !.refiltered = applyFilter(calc.filtered, calc.filterStatus)]
    /\ UNCHANGED <<files, dirs, h, left, seen>>

CalcNext == CalcFind \/ CalcComplete \/ CalcFilter \/ CalcRefilter

\* ------------------------------------------- claims on the tree operations

\* The paths of the nodes of a forest whose id is x.
MatchesOf(tasks, x) == { p \in Paths(tasks) : NodeAt(tasks, p).id = x }

UniqueIds(tasks) ==
    \A p, q \in Paths(tasks) :
        p # q => NodeAt(tasks, p).id # NodeAt(tasks, q).id

\* Whether two nodes agree in every field but checked and children.
SameLabel(n, o) ==
    /\ n.id = o.id
    /\ n.text = o.text
    /\ n.indent = o.indent
    /\ n.metadata = o.metadata
    /\ Len(n.children) = Len(o.children)

\* A node's own checked state matches a status filter.
Matches(n, s) == n.checked = (s = "checked")

\* C5: in a forest with pairwise distinct ids, findTaskById returns the one
\* node whose id is the searched id, at whatever depth it is, and returns
\* null when no node has that id.
C5_LocatorComplete ==
    (calc.pc = "found" /\ UniqueIds(calc.tasks)) =>
        LET M == MatchesOf(calc.tasks, calc.taskId) IN
        IF M = {} THEN calc.found = null
        ELSE /\ calc.found # null
             /\ M = {calc.found[1].at}
             /\ calc.found[1].task = NodeAt(calc.tasks, calc.found[1].at)
             /\ calc.found[1].task.id = calc.taskId

\* A search in a forest of distinct ids that found a node two levels below
\* the top, after a sibling subtree that does not hold it.
C5_Witness ==
    /\ calc.pc = "found"
    /\ UniqueIds(calc.tasks)
    /\ calc.found # null
    /\ Len(calc.found[1].at) >= 2
    /\ calc.found[1].at[1] >= 2

\* C6: when several nodes share the searched id, findTaskById returns the
\* one that is first in depth-first pre-order, and the set-checked assignment
\* changes the checked field of that node only: every other node, the other
\* nodes with the same id among them, keeps its fields and its place.
C6_FirstMatchWins ==
    LET M == MatchesOf(calc.tasks, calc.taskId) IN
    (calc.pc \in {"found", "set"} /\ Cardinality(M) >= 2) =>
        /\ calc.found # null
        /\ calc.found[1].at \in M
        /\ \A p \in M \ {calc.found[1].at} : Before(calc.found[1].at, p)
        /\ calc.pc = "set" =>
             /\ Paths(calc.updated) = Paths(calc.tasks)
             /\ \A p \in Paths(calc.tasks) :
                   LET o == NodeAt(calc.tasks, p)
                       n == NodeAt(calc.updated, p)
                   IN /\ SameLabel(n, o)
                      /\ n.checked = IF p = calc.found[1].at
                                     THEN calc.complete ELSE o.checked

\* A set-checked on an id held by a node and by one of its descendants, both
\* of which had the other checked state before.
C6_Witness ==
    /\ calc.pc = "set"
    /\ \E p, q \in MatchesOf(calc.tasks, calc.taskId) :
          /\ p # q
          /\ IsPrefix(p, q)
          /\ p = calc.found[1].at
          /\ NodeAt(calc.tasks, p).checked # calc.complete
          /\ NodeAt(calc.tasks, q).checked # calc.complete
          /\ NodeAt(calc.updated, q).checked # calc.complete

\* One level of the pruning as the specification words it: the nodes of L
\* that match or whose filtered children are not empty, in L's order, each
\* carrying its filtered children.
PruneLevel(L, s) ==
    LET Retained(n) == Matches(n, s) \/ filterTasksRecursive(n.children, s) # <<>>
        sel == SelectSeq(L, Retained)
    IN [j \in 1..Len(sel) |->
           [sel[j] EXCEPT !.children = filterTasksRecursive(@, s)]]

\* C7: with filter 'checked' or 'unchecked' a node is in the pruned forest
\* iff its own checked state matches or the pruned sequence of its children
\* is not empty, and it carries exactly its pruned children; this holds of
\* the top level and of every node's children. With 'all' the forest is
\* returned as it is.
C7_PruneRule ==
    calc.pc = "filtered" =>
        IF calc.filterStatus = "all" THEN calc.filtered = calc.tasks
        ELSE /\ calc.filtered = PruneLevel(calc.tasks, calc.filterStatus)
             /\ \A q \in Paths(calc.tasks) :
                   LET ch == NodeAt(calc.tasks, q).children IN
                   filterTasksRecursive(ch, calc.filterStatus)
                      = PruneLevel(ch, calc.filterStatus)

\* A status filter that dropped a top-level node and kept another one that
\* does not match itself, for a child of it.
C7_Witness ==
    /\ calc.pc = "filtered"
    /\ calc.filterStatus # "all"
    /\ Len(calc.filtered) < Len(calc.tasks)
    /\ \E i \in 1..Len(calc.filtered), j \in 1..Len(calc.tasks) :
          /\ calc.filtered[i].id = calc.tasks[j].id
          /\ ~Matches(calc.filtered[i], calc.filterStatus)
          /\ Len(calc.filtered[i].children) >= 1

\* The paths of the nodes that match a status or have a matching descendant.
KeptPaths(tasks, s) ==
    { q \in Paths(tasks) :
        \E m \in Paths(tasks) : IsPrefix(q, m) /\ Matches(NodeAt(tasks, m), s) }

\* The forest made of the nodes of `tasks` whose paths are in K, in their
\* order and under their parents (prefix is the path of the parent).
RECURSIVE Induced(_, _, _, _)
Induced(tasks, K, prefix, i) ==
    IF i > Len(tasks) THEN <<>>
    ELSE (IF (prefix \o <<i>>) \in K
          THEN <<[tasks[i] EXCEPT !.children = Induced(@, K, prefix \o <<i>>, 1)]>>
          ELSE <<>>)
         \o Induced(tasks, K, prefix, i + 1)

\* C8: the pruned forest of a status filter holds every node that matches,
\* together with all its ancestors, and no other node: it is the original
\* forest restricted to the nodes that match or have a matching descendant.
C8_AncestorsKept ==
    (calc.pc = "filtered" /\ calc.filterStatus # "all") =>
        calc.filtered
           = Induced(calc.tasks, KeptPaths(calc.tasks, calc.filterStatus), <<>>, 1)

\* A filter on a forest where a matching node lies under two ancestors that
\* do not match.
C8_Witness ==
    /\ calc.pc = "filtered"
    /\ calc.filterStatus # "all"
    /\ \E m \in Paths(calc.tasks) :
          /\ Len(m) = 3
          /\ Matches(NodeAt(calc.tasks, m), calc.filterStatus)
          /\ ~Matches(NodeAt(calc.tasks, SubSeq(m, 1, 1)), calc.filterStatus)
          /\ ~Matches(NodeAt(calc.tasks, SubSeq(m, 1, 2)), calc.filterStatus)
          /\ Len(calc.filtered) = 1
          /\ Len(calc.filtered[1].children) = 1
          /\ Len(calc.filtered[1].children[1].children) = 1

\* C9: filtering the result of a status filter again with the same status
\* changes nothing.
C9_FilterIdempotent ==
    (calc.pc = "refiltered" /\ calc.filterStatus \in {"checked", "unchecked"}) =>
        calc.refiltered = calc.filtered

\* A second filtering of a forest that the first filtering had pruned, and
\* in which a node that does not match was kept for its child.
C9_Witness ==
    /\ calc.pc = "refiltered"
    /\ calc.filterStatus # "all"
    /\ calc.filtered # calc.tasks
    /\ \E i \in 1..Len(calc.refiltered) :
          /\ ~Matches(calc.refiltered[i], calc.filterStatus)
          /\ calc.refiltered[i].children # <<>>

\* ------------------------------------------------------------ JSON documents

\* File contents are sequences of tokens (strings). A JSON text is the
\* sequence of its brackets, keys and scalar values; the raw log is a
\* sequence of words and newlines.

Digits == <<"0", "1", "2", "3", "4", "5", "6", "7", "8", "9">>
NumStr(n) == Digits[n + 1]
IsNumStr(s) == \E n \in 0..9 : Digits[n + 1] = s
StrNum(s) == CHOOSE n \in 0..9 : Digits[n + 1] = s
BoolStr(b) == IF b THEN "true" ELSE "false"

\* The result of a failed parse (JSON.parse throws a SyntaxError).
ParseFail == [ok |-> FALSE, val |-> <<>>, next |-> 0]

\* JSON.stringify of an array of TaskNode.
RECURSIVE stringifyTasks(_)
stringifyTasks(tasks) ==
    IF tasks = <<>> THEN <<>>
    ELSE LET t == Head(tasks) IN
         <<"{", "id", t.id, "text", t.text, "checked", BoolStr(t.checked),
           "indent", NumStr(t.indent), "children", "[">>
         \o stringifyTasks(t.children) \o <<"]">>
         \o (IF t.metadata = <<>> THEN <<>>
             ELSE <<"metadata", "{", "priority", t.metadata[1], "}">>)
         \o <<"}">>
         \o stringifyTasks(Tail(tasks))

\* JSON.stringify(data, null, 2) of a NotesFile.
stringifyNotes(data) ==
    <<"{", "version", data.version, "project_path", data.project_path,
      "last_modified", NumStr(data.last_modified), "tasks", "[">>
    \o stringifyTasks(data.tasks) \o <<"]">>
    \o (IF data.last_formatted_raw = <<>> THEN <<>>
        ELSE <<"last_formatted_raw", data.last_formatted_raw[1]>>)
    \o <<"}">>

\* JSON.parse of the optional metadata property of a TaskNode, from token i
\* on.
parseMetadata(t, i) ==
    IF i > Len(t) THEN ParseFail
    ELSE IF t[i] # "metadata" THEN [ok |-> TRUE, val |-> <<>>, next |-> i]
    ELSE IF i + 4 > Len(t) THEN ParseFail
    ELSE IF t[i + 1] # "{" \/ t[i + 2] # "priority" \/ t[i + 4] # "}" THEN ParseFail
    ELSE [ok |-> TRUE, val |-> <<t[i + 3]>>, next |-> i + 5]

\* JSON.parse of the elements of an array of TaskNode from token i on, up to
\* and including the closing bracket.
RECURSIVE parseTasks(_, _)
parseTasks(t, i) ==
    IF i > Len(t) THEN ParseFail
    ELSE IF t[i] = "]" THEN [ok |-> TRUE, val |-> <<>>, next |-> i + 1]
    ELSE IF i + 10 > Len(t) THEN ParseFail
    ELSE IF ~ /\ t[i] = "{"
              /\ t[i + 1] = "id"
              /\ t[i + 3] = "text"
              /\ t[i + 5] = "checked"
              /\ t[i + 6] \in {"true", "false"}
              /\ t[i + 7] = "indent"
              /\ IsNumStr(t[i + 8])
              /\ t[i + 9] = "children"
              /\ t[i + 10] = "["
         THEN ParseFail
    ELSE LET ch == parseTasks(t, i + 11) IN
         IF ~ch.ok THEN ParseFail
         ELSE LET md == parseMetadata(t, ch.next) IN
         IF ~md.ok THEN ParseFail
         ELSE IF md.next > Len(t) \/ t[md.next] # "}" THEN ParseFail
         ELSE LET rest == parseTasks(t, md.next + 1) IN
              IF ~rest.ok THEN ParseFail
              ELSE [ok |-> TRUE,
                    val |-> <<[id |-> t[i + 2], text |-> t[i + 4],
                               checked |-> (t[i + 6] = "true"),
                               indent |-> StrNum(t[i + 8]),
                               children |-> ch.val,
                               metadata |-> md.val]>> \o rest.val,
                    next |-> rest.next]

\* JSON.parse of the text of a NotesFile: ok and the document, or not ok.
parseNotes(t) ==
    IF Len(t) < 10 THEN ParseFail
    ELSE IF ~ /\ t[1] = "{"
              /\ t[2] = "version"
              /\ t[4] = "project_path"
              /\ t[6] = "last_modified"
              /\ IsNumStr(t[7])
              /\ t[8] = "tasks"
              /\ t[9] = "["
         THEN ParseFail
    ELSE LET ts == parseTasks(t, 10) IN
         IF ~ts.ok THEN ParseFail
         ELSE LET raw == IF ts.next + 2 = Len(t) /\ t[ts.next] = "last_formatted_raw"
                         THEN <<t[ts.next + 1]>> ELSE <<>>
                  end == ts.next + 2 * Len(raw)
              IN
         IF end # Len(t) \/ t[end] # "}" THEN ParseFail
         ELSE [ok |-> TRUE,
               val |-> [version |-> t[3], project_path |-> t[5],
                        last_modified |-> StrNum(t[7]), tasks |-> ts.val,
                        last_formatted_raw |-> raw],
               next |-> end + 1]

\* ProjectSettings (name, path, last_accessed; created is left out).
\* JSON.stringify of the registry, an array of ProjectSettings.
RECURSIVE stringifyProjects(_)
stringifyProjects(projects) ==
    IF projects = <<>> THEN <<>>
    ELSE LET q == Head(projects) IN
         <<"{", "name", q.name, "path", q.path,
           "last_accessed", NumStr(q.last_accessed), "}">>
         \o stringifyProjects(Tail(projects))

stringifyRegistry(projects) == <<"[">> \o stringifyProjects(projects) \o <<"]">>

RECURSIVE parseProjects(_, _)
parseProjects(t, i) ==
    IF i > Len(t) THEN ParseFail
    ELSE IF t[i] = "]" THEN [ok |-> TRUE, val |-> <<>>, next |-> i + 1]
    ELSE IF i + 7 > Len(t) THEN ParseFail
    ELSE IF ~ /\ t[i] = "{"
              /\ t[i + 1] = "name"
              /\ t[i + 3] = "path"
              /\ t[i + 5] = "last_accessed"
              /\ IsNumStr(t[i + 6])
              /\ t[i + 7] = "}"
         THEN ParseFail
    ELSE LET rest == parseProjects(t, i + 8) IN
         IF ~rest.ok THEN ParseFail
         ELSE [ok |-> TRUE,
               val |-> <<[name |-> t[i + 2], path |-> t[i + 4],
                          last_accessed |-> StrNum(t[i + 6])]>> \o rest.val,
               next |-> rest.next]

\* JSON.parse of the text of projects.json.
parseRegistry(t) ==
    IF Len(t) < 2 \/ t[1] # "[" THEN ParseFail
    ELSE LET ps == parseProjects(t, 2) IN
         IF ~ps.ok \/ ps.next # Len(t) + 1 THEN ParseFail ELSE ps

\* ------------------------------------------------------------ the file store


\* PROJECTS_FILE
ProjectsFile == <<"", "projects.json">>
\* join(projectPath, "notes.json")
NotesPath(projectPath) == <<projectPath, "notes.json">>
\* join(projectPath, "raw.txt")
RawPath(projectPath) == <<projectPath, "raw.txt">>

\* fileExists
fileExists(fs, path) == path \in DOMAIN fs

\* The file store with `path` holding `content`.
WriteFile(fs, path, content) ==
    [q \in DOMAIN fs \cup {path} |-> IF q = path THEN content ELSE fs[q]]

\* The file store without `path`.
RemoveFile(fs, path) == [q \in DOMAIN fs \ {path} |-> fs[q]]

\* The registry: the desktop application's projects.
TheProjects ==
    <<[name |-> "p1", path |-> "/work/p1", last_accessed |-> 1],
      [name |-> "p2", path |-> "/work/p2", last_accessed |-> 2]>>

\* The project names requests carry: a registered project with files, and a
\* name that differs from it in case only.
RequestProjects == {"p1", "P1"}

\* A NotesFile of project p1; last_formatted_raw is a sequence, empty when
\* the field is absent.
NotesOf(tasks, modified, raw) ==
    [version |-> "1.0", project_path |-> "/work/p1",
     last_modified |-> modified, tasks |-> tasks, last_formatted_raw |-> raw]

\* The ids of the tasks in the notes.json files of the file store; a request
\* may also name the id that none of them has.
DocIds == {"a", "b"}

DocForests == UNION { ForestsOfSize(DocIds, n, 0) : n \in 0..MaxDocNodes }

\* The raw logs project p1 may start with: empty, ending in a newline, and
\* ending in the middle of a line.
InitialRaws == { <<>>, <<"first", "\n">>, <<"first">> }

\* The project names the reading requests carry: those, and a second
\* registered project.
ReadProjects == RequestProjects \cup {"p2"}

\* The names and last_accessed values of the projects of a drawn registry
\* (0: never accessed, or no last_accessed).
ProjectNames == <<"p1", "p2", "p3">>
LastAccessed == {0, 1, 2}

\* The registries of up to MaxProjects projects.
Registries ==
    UNION { { [i \in 1..n |-> [name |-> ProjectNames[i],
                               path |-> "/work/" \o ProjectNames[i],
                               last_accessed |-> la[i]]] :
                la \in [1..n -> LastAccessed] } : n \in 0..MaxProjects }

\* The texts an append request carries.
TaskTexts == { <<"buy milk">>, <<"buy milk", "\n">>, <<>> }

\* The texts the application appends to the raw log.
ExtTexts == { <<"app">>, <<"app", "\n">> }

\* ------------------------------------------------------- the request slots

\* The reader has read nothing.
NoSeen == [slot |-> 0, pc |-> "", exists |-> FALSE, content |-> <<>>,
           saved |-> <<>>, last |-> FALSE]

\* A result: whether it is an error, which message it is, the text the
\* message names (a task's text or id), and the items it lists.
NoResult == [isError |-> FALSE, msg |-> "", text |-> "", items |-> <<>>]

NoNotes ==
    [version |-> "", project_path |-> "", last_modified |-> 0, tasks |-> <<>>,
     last_formatted_raw |-> <<>>]

\* A slot with no request. files0 and dirs0
\* are the file store when the request arrived, foreign tells whether another
\* writer has written since, writes counts the request's own file-system
\* writes (the last three are history, not read by the handlers).
NoRequest ==
    [pc |-> "idle", tool |-> "", project_name |-> "", task_id |-> "",
     complete |-> FALSE, task_text |-> <<>>, filter_status |-> "all",
     projectPath |-> "", notesData |-> NoNotes, at |-> <<>>, content |-> <<>>,
     tmpName |-> "", error |-> "", result |-> NoResult,
     files0 |-> [q \in {} |-> <<>>], dirs0 |-> {}, foreign |-> FALSE, writes |-> 0]

\* The server's request slots, and the one slot of a run in which a request
\* arrives after the request before it has ended.
Slots == {1, 2}
Serial == {1}

\* The slots other than r whose requests are under way or done see a write
\* that is not theirs.
MarkForeign(hh, r) ==
    [q \in DOMAIN hh |->
        IF q # r /\ hh[q].pc # "idle" THEN [hh[q] EXCEPT !.foreign = TRUE]
        ELSE hh[q]]

\* return text: the request ends with a result that is not an error.
Return(rec, msg, text) ==
    [rec EXCEPT !.pc = "done",
                !.result = [isError |-> FALSE, msg |-> msg, text |-> text,
                            items |-> <<>>]]

\* A failure that ends the process instead of being caught: no result is
\* returned and no later request is served.
exitProcess(rec, msg) ==
    [rec EXCEPT !.pc = "exited",
                !.result = [isError |-> TRUE, msg |-> msg, text |-> "",
                            items |-> <<>>]]

\* The catch of the CallToolRequestSchema handler: a throw anywhere in a
\* handler ends the request with the result "Error: <message>", isError.
Throw(rec, msg) ==
    [rec EXCEPT !.pc = "done",
                !.result = [isError |-> TRUE, msg |-> msg, text |-> "",
                            items |-> <<>>]]

\* ------------------------------------------------------ the request handlers

\* A tools/call request arrives at a free slot: the handler runs up to its
\* first await, the read of the registry in getProjectPath.
Arrive(r, rec) ==
    /\ h[r].pc \in {"idle", "done"}
    /\ left.requests > 0
    /\ h' = [h EXCEPT ![r] = [rec EXCEPT !.pc = "getProjectPath",
                                         !.files0 = files, !.dirs0 = dirs]]
    /\ left' = [left EXCEPT !.requests = @ - 1]
    /\ seen' = NoSeen
    /\ UNCHANGED <<calc, files, dirs>>

\* oscribble_complete_task or oscribble_uncomplete_task arrives.
StartSetChecked(r) ==
    \E name \in RequestProjects, id \in Ids,
       tool \in {"oscribble_complete_task", "oscribble_uncomplete_task"} :
        Arrive(r, [NoRequest EXCEPT !.tool = tool, !.project_name = name,
                       !.task_id = id,
                       !.complete = (tool = "oscribble_complete_task")])

\* oscribble_add_raw_task arrives.
StartAddRaw(r) ==
    \E name \in RequestProjects, text \in TaskTexts :
        Arrive(r, [NoRequest EXCEPT !.tool = "oscribble_add_raw_task",
                       !.project_name = name, !.task_text = text])

\* Mutant of registryText: the registry the first request found is kept and
\* served to the requests after it.
registryTextCached(r) ==
    IF r # 1 /\ h[1].pc = "done" /\ fileExists(h[1].files0, ProjectsFile)
    THEN h[1].files0[ProjectsFile]
    ELSE files[ProjectsFile]

\* fs.readFile(PROJECTS_FILE) in loadJson: the text of the registry now.
registryText(r) == files[ProjectsFile]

\* Mutant of sameName: names are compared without regard to case.
sameNameIgnoringCase(name, projectName) ==
    LET lower(n) == IF n = "P1" THEN "p1" ELSE n
    IN lower(name) = lower(projectName)

\* p.name === projectName
sameName(name, projectName) == name = projectName

\* getProjectPath: the registry is read and parsed, and the project whose
\* name is exactly the given one is looked up.
GetProjectPath(r) ==
    /\ h[r].pc = "getProjectPath"
    /\ LET rec == h[r]
           projects == parseRegistry(registryText(r))
       IN h' = [h EXCEPT ![r] =
             IF ~fileExists(files, ProjectsFile) THEN Throw(rec, "ENOENT")
             ELSE IF ~projects.ok THEN Throw(rec, "SyntaxError")
             ELSE IF ~\E i \in 1..Len(projects.val) :
                        sameName(projects.val[i].name, rec.project_name)
                  THEN [Throw(rec, "Project not found") EXCEPT
                           !.result.text = rec.project_name]
             ELSE [rec EXCEPT !.projectPath = rec.project_name,
                      !.pc = CASE rec.tool = "oscribble_add_raw_task" -> "mkdirProject"
                               [] rec.tool = "oscribble_list_tasks" -> "listExists"
                               [] rec.tool = "oscribble_get_task_details" -> "detailsExists"
                               [] OTHER -> "fileExists"]]
    /\ UNCHANGED <<calc, files, dirs, left, seen>>

\* fileExists(notesFile) of handleCompleteTask.
FileExists(r) ==
    /\ h[r].pc = "fileExists"
    /\ h' = [h EXCEPT ![r] =
               IF fileExists(files, NotesPath(h[r].projectPath))
               THEN [h[r] EXCEPT !.pc = "loadJson"]
               ELSE Return(h[r], "Notes file not found", "")]
    /\ UNCHANGED <<calc, files, dirs, left, seen>>

\* Mutant of completeTask: when the task is not found and the forest has
\* tasks, the document is saved as it is and the first task is confirmed.
completeTaskSavesAnyway(rec, notesData) ==
    LET tasks == notesData.tasks
        result == findTaskById(tasks, rec.task_id)
    IN IF result = null /\ tasks = <<>>
       THEN Return([rec EXCEPT !.notesData = notesData], "Task not found", rec.task_id)
       ELSE IF result = null
       THEN [rec EXCEPT !.pc = "mkdir", !.at = <<1>>, !.notesData = notesData]
       ELSE [rec EXCEPT !.pc = "mkdir", !.at = result[1].at,
                !.notesData = [notesData EXCEPT !.tasks =
                                  assignChecked(tasks, result[1].at, rec.complete)]]

\* handleCompleteTask after the document is loaded: the task is searched; when
\* it is not found the handler returns, otherwise its checked field is
\* assigned and atomicWriteJson(notesFile, notesData) runs up to its first
\* await.
completeTask(rec, notesData) ==
    LET tasks == notesData.tasks
        result == findTaskById(tasks, rec.task_id)
    IN IF result = null
       THEN Return([rec EXCEPT !.notesData = notesData], "Task not found", rec.task_id)
       ELSE [rec EXCEPT !.pc = "mkdir", !.at = result[1].at,
                !.notesData = [notesData EXCEPT !.tasks =
                                  assignChecked(tasks, result[1].at, rec.complete)]]

\* await loadJson(notesFile): the file is read and parsed; the handler goes
\* on to its next await.
LoadJson(r) ==
    /\ h[r].pc = "loadJson"
    /\ LET rec == h[r]
           notesFile == NotesPath(rec.projectPath)
           notesData == parseNotes(files[notesFile])
       IN h' = [h EXCEPT ![r] =
             IF ~fileExists(files, notesFile) THEN Throw(rec, "ENOENT")
             ELSE IF ~notesData.ok THEN Throw(rec, "SyntaxError")
             ELSE completeTask(rec, notesData.val)]
    /\ UNCHANGED <<calc, files, dirs, left, seen>>

\* ------------------------------------------------------------ atomicWriteJson

\* The call atomicWriteJson(notesFile, notesData) of slot r: filePath and dir.
filePath(r) == NotesPath(h[r].projectPath)
dirname(r) == h[r].projectPath

\* Mutant of tmpPath: the data is written to the target path itself.
tmpPathIsTarget(r) == filePath(r)

\* tmpPath = join(dir, tmpName)
tmpPath(r) == <<dirname(r), h[r].tmpName>>

\* The temp names there are.
TmpNames == {".1.tmp", ".2.tmp", ".3.tmp", ".4.tmp"}

\* tmpName: 16 random bytes in hex between "." and ".tmp", modelled as a
\* name that no file of the directory has.
tmpName(fs, dir) == CHOOSE nm \in TmpNames : <<dir, nm>> \notin DOMAIN fs

\* The lengths a write that fails part-way may have reached, of `len` tokens
\* to write: nothing, half, all but the last token.
PartialLengths(len) == {0, len \div 2, len - 1} \cap 0..(len - 1)

\* This slot's record after one more call that writes to the file system.
Wrote(rec) == [rec EXCEPT !.writes = @ + 1]

\* A call fails: one of the failures still to come is used.
Fault == left.faults > 0 /\ left' = [left EXCEPT !.faults = @ - 1]
NoFault == UNCHANGED left

\* The file store with the temp names that the other requests under way have
\* drawn taken: two draws of 16 random bytes differ.
Drawn(fs, r) ==
    LET taken == { <<h[q].projectPath, h[q].tmpName>> :
                      q \in { q \in Slots \ {r} :
                                h[q].pc \notin {"idle", "done"} /\ h[q].tmpName # "" } }
    IN fs @@ [path \in taken |-> <<>>]

\* await fs.mkdir(dir, { recursive: true }), then the temp name is drawn.
\* A failure is thrown to the caller: the try block is not entered yet.
Mkdir(r) ==
    /\ h[r].pc = "mkdir"
    /\ \/ /\ NoFault
          /\ dirs' = dirs \cup {dirname(r)}
          /\ h' = [MarkForeign(h, r) EXCEPT ![r] =
                     [Wrote(h[r]) EXCEPT !.pc = "open",
                                         !.tmpName = tmpName(Drawn(files, r), dirname(r))]]
       \/ /\ Fault
          /\ dirs' = dirs
          /\ h' = [h EXCEPT ![r] = Throw(Wrote(h[r]), "EIO")]
    /\ UNCHANGED <<calc, files, seen>>

\* fs.writeFile(tmpPath, ...), first part: the file is opened for writing,
\* which creates it empty or truncates it.
Open(r) ==
    /\ h[r].pc = "open"
    /\ \/ /\ NoFault
          /\ files' = WriteFile(files, tmpPath(r), <<>>)
          /\ h' = [MarkForeign(h, r) EXCEPT ![r] = [Wrote(h[r]) EXCEPT !.pc = "write"]]
       \/ /\ Fault
          /\ files' = files
          /\ h' = [h EXCEPT ![r] = [Wrote(h[r]) EXCEPT !.pc = "unlink", !.error = "EIO"]]
    /\ UNCHANGED <<calc, dirs, seen>>

\* fs.writeFile(tmpPath, JSON.stringify(data, null, 2)), second part: the
\* text is written; a failure leaves a part of it in the file.
Write(r) ==
    /\ h[r].pc = "write"
    /\ LET text == stringifyNotes(h[r].notesData) IN
       \/ /\ NoFault
          /\ files' = WriteFile(files, tmpPath(r), text)
          /\ h' = [MarkForeign(h, r) EXCEPT ![r] = [h[r] EXCEPT !.pc = "rename"]]
       \/ /\ Fault
          /\ \E k \in PartialLengths(Len(text)) :
                files' = WriteFile(files, tmpPath(r), SubSeq(text, 1, k))
          /\ h' = [MarkForeign(h, r) EXCEPT ![r] =
                     [h[r] EXCEPT !.pc = "unlink", !.error = "EIO"]]
    /\ UNCHANGED <<calc, dirs, seen>>

\* A rename that checks for a conflict first: it fails when another writer
\* has changed the files since the request arrived.
RenameUnlessChanged(r) ==
    /\ h[r].pc = "rename"
    /\ LET rec == Wrote(h[r])
           from == tmpPath(r)
       IN IF fileExists(files, from) /\ ~rec.foreign
          THEN /\ NoFault
               /\ files' = WriteFile(RemoveFile(files, from), filePath(r), files[from])
               /\ h' = [MarkForeign(h, r) EXCEPT ![r] =
                          Return(rec, IF rec.complete THEN "completed" ELSE "uncompleted",
                                 NodeAt(rec.notesData.tasks, rec.at).text)]
          ELSE /\ NoFault
               /\ files' = files
               /\ h' = [h EXCEPT ![r] = Throw(rec, "conflict")]
    /\ UNCHANGED <<calc, dirs, seen>>

\* await fs.rename(tmpPath, filePath): the target path now names the temp
\* file's content; handleCompleteTask then returns its confirmation.
Rename(r) ==
    /\ h[r].pc = "rename"
    /\ LET rec == Wrote(h[r])
           from == tmpPath(r)
       IN \/ /\ NoFault
             /\ IF fileExists(files, from)
                THEN /\ files' = WriteFile(RemoveFile(files, from), filePath(r), files[from])
                     /\ h' = [MarkForeign(h, r) EXCEPT ![r] =
                                Return(rec, IF rec.complete THEN "completed" ELSE "uncompleted",
                                       NodeAt(rec.notesData.tasks, rec.at).text)]
                ELSE /\ files' = files
                     /\ h' = [h EXCEPT ![r] = [rec EXCEPT !.pc = "unlink", !.error = "ENOENT"]]
          \/ /\ Fault
             /\ files' = files
             /\ h' = [h EXCEPT ![r] = [rec EXCEPT !.pc = "unlink", !.error = "EIO"]]
    /\ UNCHANGED <<calc, dirs, seen>>

\* Mutant of rethrow: the catch block ends without throwing, and the handler
\* goes on to return its confirmation.
swallow(rec) ==
    Return(rec, IF rec.complete THEN "completed" ELSE "uncompleted",
           NodeAt(rec.notesData.tasks, rec.at).text)

\* throw error, at the end of the catch block: the failure of the write or
\* of the rename reaches the caller.
rethrow(rec) == Throw(rec, rec.error)

\* A catch block that throws without deleting the temp file.
UnlinkNotAttempted(r) ==
    /\ h[r].pc = "unlink"
    /\ NoFault
    /\ files' = files
    /\ h' = [h EXCEPT ![r] = rethrow(h[r])]
    /\ UNCHANGED <<calc, dirs, seen>>

\* The catch block: await fs.unlink(tmpPath), whose own failure is ignored,
\* then throw error.
Unlink(r) ==
    /\ h[r].pc = "unlink"
    /\ \/ /\ NoFault
          /\ files' = RemoveFile(files, tmpPath(r))
          /\ h' = [MarkForeign(h, r) EXCEPT ![r] = rethrow(Wrote(h[r]))]
       \/ /\ Fault
          /\ files' = files
          /\ h' = [h EXCEPT ![r] = rethrow(Wrote(h[r]))]
    /\ UNCHANGED <<calc, dirs, seen>>

\* ------------------------------------------------------------ handleAddRawTask

rawFile(r) == RawPath(h[r].projectPath)

EndsWithNewline(text) == Len(text) > 0 /\ text[Len(text)] = "\n"

\* content = taskText, with "\n" added when taskText does not end in one.
newlineTerminated(taskText) ==
    IF ~EndsWithNewline(taskText) THEN taskText \o <<"\n">> ELSE taskText

\* Mutant of separated: the content is appended as it is.
notSeparated(existingContent, content) == content

\* content, with "\n" before it when the existing content is not empty and
\* does not end in "\n".
separated(existingContent, content) ==
    IF Len(existingContent) > 0 /\ ~EndsWithNewline(existingContent)
    THEN <<"\n">> \o content ELSE content

\* await fs.mkdir(projectPath, { recursive: true }), then content is the
\* text, with a newline added when the text does not end in one.
MkdirProject(r) ==
    /\ h[r].pc = "mkdirProject"
    /\ dirs' = dirs \cup {h[r].projectPath}
    /\ h' = [MarkForeign(h, r) EXCEPT ![r] =
               [Wrote(h[r]) EXCEPT !.pc = "rawExists",
                   !.content = newlineTerminated(h[r].task_text)]]
    /\ UNCHANGED <<calc, files, left, seen>>

\* await fileExists(rawFile)
RawExists(r) ==
    /\ h[r].pc = "rawExists"
    /\ h' = [h EXCEPT ![r].pc =
               IF fileExists(files, rawFile(r)) THEN "readFile" ELSE "appendFile"]
    /\ UNCHANGED <<calc, files, dirs, left, seen>>

\* existingContent = await fs.readFile(rawFile): a newline is put before the
\* content when the log read is not empty and does not end in a newline.
ReadFile(r) ==
    /\ h[r].pc = "readFile"
    /\ h' = [h EXCEPT ![r] =
               IF ~fileExists(files, rawFile(r)) THEN Throw(h[r], "ENOENT")
               ELSE LET existingContent == files[rawFile(r)] IN
                    [h[r] EXCEPT !.pc = "appendFile",
                                 !.content = separated(existingContent, @)]]
    /\ UNCHANGED <<calc, files, dirs, left, seen>>

\* Mutant of appendTo: fs.writeFile in the place of fs.appendFile.
writeOver(fs, path, content) == WriteFile(fs, path, content)

\* fs.appendFile(path, content): the content is put after what the file
\* holds; the file is created when absent.
appendTo(fs, path, content) ==
    WriteFile(fs, path, (IF fileExists(fs, path) THEN fs[path] ELSE <<>>) \o content)

\* await fs.appendFile(rawFile, content): the log is created when absent.
AppendFile(r) ==
    /\ h[r].pc = "appendFile"
    /\ files' = appendTo(files, rawFile(r), h[r].content)
    /\ h' = [MarkForeign(h, r) EXCEPT ![r] = Return(Wrote(h[r]), "Added raw task", "")]
    /\ UNCHANGED <<calc, dirs, left, seen>>

\* ------------------------------------------------------ the reading handlers

\* The tools of the server.
Tools ==
    {"oscribble_list_projects", "oscribble_list_tasks", "oscribble_complete_task",
     "oscribble_uncomplete_task", "oscribble_get_task_details",
     "oscribble_add_raw_task"}

\* A tools/call request arrives at a free slot and its handler runs up to the
\* place rec.pc.
Accept(r, rec) ==
    /\ h[r].pc \in {"idle", "done"}
    /\ left.requests > 0
    /\ h' = [h EXCEPT ![r] = [rec EXCEPT !.files0 = files, !.dirs0 = dirs]]
    /\ left' = [left EXCEPT !.requests = @ - 1]
    /\ seen' = NoSeen
    /\ UNCHANGED <<calc, files, dirs>>

\* A request whose params have no arguments: the handler throws before the
\* switch, whichever tool is named.
StartWithoutArguments(r) ==
    \E tool \in Tools :
        Accept(r, Throw([NoRequest EXCEPT !.tool = tool], "Missing arguments"))

\* A request that names no tool of the server: the default case throws.
StartUnknownTool(r) ==
    Accept(r, [Throw([NoRequest EXCEPT !.tool = "oscribble_rename_task"], "Unknown tool")
                  EXCEPT !.result.text = "oscribble_rename_task"])

\* oscribble_list_projects arrives with arguments (an empty object):
\* handleListProjects runs up to fileExists(PROJECTS_FILE).
StartListProjects(r) ==
    Accept(r, [NoRequest EXCEPT !.tool = "oscribble_list_projects",
                                !.pc = "registryExists"])

\* oscribble_list_tasks arrives; an absent filter_status is "all".
StartListTasks(r) ==
    \E name \in ReadProjects, filterStatus \in FilterStatus :
        Arrive(r, [NoRequest EXCEPT !.tool = "oscribble_list_tasks",
                       !.project_name = name, !.filter_status = filterStatus])

\* oscribble_get_task_details arrives.
StartGetTaskDetails(r) ==
    \E name \in ReadProjects, id \in Ids :
        Arrive(r, [NoRequest EXCEPT !.tool = "oscribble_get_task_details",
                       !.project_name = name, !.task_id = id])

\* return of a handler whose text lists items.
ReturnItems(rec, msg, items) ==
    [Return(rec, msg, "") EXCEPT !.result.items = items]

\* await fileExists(PROJECTS_FILE) of handleListProjects.
RegistryExists(r) ==
    /\ h[r].pc = "registryExists"
    /\ h' = [h EXCEPT ![r] =
               IF fileExists(files, ProjectsFile)
               THEN [h[r] EXCEPT !.pc = "loadRegistry"]
               ELSE Return(h[r], "No projects file", "")]
    /\ UNCHANGED <<calc, files, dirs, left, seen>>

\* Mutant of comesBefore: the comparator is (a, b) => a - b.
comesBeforeAscending(a, b) == a.last_accessed <= b.last_accessed

\* Whether a stays before b when b comes later in the array: the comparator
\* (b.last_accessed || 0) - (a.last_accessed || 0) is not positive. A missing
\* last_accessed is 0.
comesBefore(a, b) == b.last_accessed - a.last_accessed <= 0

\* A sorted array with one more element, put after the elements that stay
\* before it (the sort is stable).
RECURSIVE insertSorted(_, _)
insertSorted(sorted, p) ==
    IF sorted = <<>> THEN <<p>>
    ELSE IF comesBefore(Head(sorted), p)
         THEN <<Head(sorted)>> \o insertSorted(Tail(sorted), p)
         ELSE <<p>> \o sorted

\* projects.sort((a, b) => (b.last_accessed || 0) - (a.last_accessed || 0))
RECURSIVE sortProjects(_)
sortProjects(projects) ==
    IF projects = <<>> THEN <<>>
    ELSE insertSorted(sortProjects(SubSeq(projects, 1, Len(projects) - 1)),
                      projects[Len(projects)])

\* await loadJson(PROJECTS_FILE) of handleListProjects and the rest of the
\* handler: the projects are listed by last_accessed, most recent first.
LoadRegistry(r) ==
    /\ h[r].pc = "loadRegistry"
    /\ LET rec == h[r]
           projects == parseRegistry(registryText(r))
       IN h' = [h EXCEPT ![r] =
             IF ~fileExists(files, ProjectsFile) THEN Throw(rec, "ENOENT")
             ELSE IF ~projects.ok THEN Throw(rec, "SyntaxError")
             ELSE IF Len(projects.val) = 0 THEN Return(rec, "No projects found", "")
             ELSE ReturnItems(rec, "Oscribble Projects", sortProjects(projects.val))]
    /\ UNCHANGED <<calc, files, dirs, left, seen>>

\* await fileExists(notesFile) of handleListTasks.
ListExists(r) ==
    /\ h[r].pc = "listExists"
    /\ h' = [h EXCEPT ![r] =
               IF fileExists(files, NotesPath(h[r].projectPath))
               THEN [h[r] EXCEPT !.pc = "listLoad"]
               ELSE Return(h[r], "No tasks found, no notes file", h[r].project_name)]
    /\ UNCHANGED <<calc, files, dirs, left, seen>>

\* A list-tasks that saves the document it pruned.
ListLoadSaving(r) ==
    /\ h[r].pc = "listLoad"
    /\ LET rec == h[r]
           notesFile == NotesPath(rec.projectPath)
           notesData == parseNotes(files[notesFile])
           pruned == [notesData.val EXCEPT !.tasks = prunedInPlace(@, rec.filter_status)]
       IN IF fileExists(files, notesFile) /\ notesData.ok
          THEN /\ files' = WriteFile(files, notesFile, stringifyNotes(pruned))
               /\ h' = [h EXCEPT ![r] =
                          ReturnItems([rec EXCEPT !.notesData = pruned], "Tasks",
                                      applyFilter(notesData.val.tasks, rec.filter_status))]
          ELSE /\ files' = files
               /\ h' = [h EXCEPT ![r] = Throw(rec, "ENOENT")]
    /\ UNCHANGED <<calc, dirs, left, seen>>

\* await loadJson(notesFile) of handleListTasks and the rest of the handler.
ListLoad(r) ==
    /\ h[r].pc = "listLoad"
    /\ LET rec == h[r]
           notesFile == NotesPath(rec.projectPath)
           notesData == parseNotes(files[notesFile])
       IN h' = [h EXCEPT ![r] =
             IF ~fileExists(files, notesFile) THEN Throw(rec, "ENOENT")
             ELSE IF ~notesData.ok THEN Throw(rec, "SyntaxError")
             ELSE LET loaded == [rec EXCEPT !.notesData =
                                    [notesData.val EXCEPT !.tasks =
                                        prunedInPlace(@, rec.filter_status)]]
                      tasks == applyFilter(notesData.val.tasks, rec.filter_status)
                  IN IF notesData.val.tasks = <<>>
                     THEN Return(loaded, "No tasks found", rec.project_name)
                     ELSE IF tasks = <<>>
                     THEN Return(loaded, "No filtered tasks found", rec.filter_status)
                     ELSE ReturnItems(loaded, "Tasks", tasks)]
    /\ UNCHANGED <<calc, files, dirs, left, seen>>

\* await fileExists(notesFile) of handleGetTaskDetails.
DetailsExists(r) ==
    /\ h[r].pc = "detailsExists"
    /\ h' = [h EXCEPT ![r] =
               IF fileExists(files, NotesPath(h[r].projectPath))
               THEN [h[r] EXCEPT !.pc = "detailsLoad"]
               ELSE Return(h[r], "Notes file not found", "")]
    /\ UNCHANGED <<calc, files, dirs, left, seen>>

\* await loadJson(notesFile) of handleGetTaskDetails and the rest of the
\* handler: the task is searched and rendered with its children.
DetailsLoad(r) ==
    /\ h[r].pc = "detailsLoad"
    /\ LET rec == h[r]
           notesFile == NotesPath(rec.projectPath)
           notesData == parseNotes(files[notesFile])
       IN h' = [h EXCEPT ![r] =
             IF ~fileExists(files, notesFile) THEN Throw(rec, "ENOENT")
             ELSE IF ~notesData.ok THEN Throw(rec, "SyntaxError")
             ELSE LET loaded == [rec EXCEPT !.notesData = notesData.val]
                      result == findTaskById(notesData.val.tasks, rec.task_id)
                  IN IF result = null
                     THEN Return(loaded, "Task not found", rec.task_id)
                     ELSE ReturnItems([loaded EXCEPT !.at = result[1].at],
                                      "Task Details", <<result[1].task>>)]
    /\ UNCHANGED <<calc, files, dirs, left, seen>>

\* ------------------------------------------- the application and the reader

\* The forests the application may save over the forest it finds: one task
\* toggled, or a first task when there is none.
ExtEdits(tasks) ==
    IF tasks = <<>> THEN { <<TaskNode("a", FALSE, 0, <<>>)>> }
    ELSE { assignChecked(tasks, p, ~NodeAt(tasks, p).checked) : p \in Paths(tasks) }

\* The Oscribble application saves project p1's notes.json: a whole document
\* with the raw text it formatted, put in place by a rename of its own temp
\* file.
ExtSaveNotes ==
    /\ left.ext > 0
    /\ LET notesFile == NotesPath("p1")
           cur == IF fileExists(files, notesFile) THEN parseNotes(files[notesFile])
                  ELSE ParseFail
           tasks == IF cur.ok THEN cur.val.tasks ELSE <<>>
       IN \E t \in ExtEdits(tasks) :
             files' = WriteFile(files, notesFile, stringifyNotes(NotesOf(t, 2, <<"first line">>)))
    /\ dirs' = dirs \cup {"p1"}
    /\ h' = MarkForeign(h, 0)
    /\ left' = [left EXCEPT !.ext = @ - 1]
    /\ UNCHANGED <<calc, seen>>

\* Another process appends to project p1's raw.txt.
ExtAppendRaw ==
    /\ left.ext > 0
    /\ \E text \in ExtTexts :
          files' = WriteFile(files, RawPath("p1"),
                      (IF fileExists(files, RawPath("p1")) THEN files[RawPath("p1")]
                       ELSE <<>>) \o text)
    /\ dirs' = dirs \cup {"p1"}
    /\ h' = MarkForeign(h, 0)
    /\ left' = [left EXCEPT !.ext = @ - 1]
    /\ UNCHANGED <<calc, seen>>

\* The registries the application leaves: the two projects, p1 opened after
\* p2, p2 removed, a third project added.
AppRegistries ==
    { TheProjects,
      [TheProjects EXCEPT ![1].last_accessed = 3],
      SubSeq(TheProjects, 1, 1),
      TheProjects \o <<[name |-> "P1", path |-> "/work/P1", last_accessed |-> 3]>> }

\* The application rewrites the registry: a project opened (last_accessed
\* changes), added or removed.
ExtSaveRegistry ==
    /\ left.ext > 0
    /\ \E reg \in AppRegistries :
          /\ fileExists(files, ProjectsFile) => stringifyRegistry(reg) # files[ProjectsFile]
          /\ files' = WriteFile(files, ProjectsFile, stringifyRegistry(reg))
    /\ h' = MarkForeign(h, 0)
    /\ left' = [left EXCEPT !.ext = @ - 1]
    /\ UNCHANGED <<calc, dirs, seen>>

\* The application loads project p1's notes.json, to edit and save it later.
AppLoadNotes ==
    /\ left.ext > 0
    /\ seen.pc # "app"
    /\ \E r \in Serial : h[r].pc \notin {"idle", "done"}
    /\ fileExists(files, NotesPath("p1"))
    /\ parseNotes(files[NotesPath("p1")]).ok
    /\ seen' = [NoSeen EXCEPT !.pc = "app", !.exists = TRUE,
                              !.content = files[NotesPath("p1")]]
    /\ UNCHANGED <<calc, files, dirs, h, left>>

\* The application saves the document it loaded, with one edit: the whole
\* document, whatever notes.json holds by then. It remembers what it saved
\* and whether a request's rename had already happened.
AppSaveNotes ==
    /\ left.ext > 0
    /\ seen.pc = "app"
    /\ \E t \in ExtEdits(parseNotes(seen.content).val.tasks) :
          files' = WriteFile(files, NotesPath("p1"),
                      stringifyNotes(NotesOf(t, 2, <<"first line">>)))
    /\ seen' = [seen EXCEPT !.pc = "saved",
                             !.saved = files'[NotesPath("p1")],
                             !.last = \E r \in Serial : h[r].pc = "done"]
    /\ h' = MarkForeign(h, 0)
    /\ left' = [left EXCEPT !.ext = @ - 1]
    /\ UNCHANGED <<calc, dirs>>

\* The application deletes project p1's notes.json.
AppDeleteNotes ==
    /\ left.ext > 0
    /\ fileExists(files, NotesPath("p1"))
    /\ files' = RemoveFile(files, NotesPath("p1"))
    /\ h' = MarkForeign(h, 0)
    /\ left' = [left EXCEPT !.ext = @ - 1]
    /\ UNCHANGED <<calc, dirs, seen>>

\* A concurrent reader reads the notes.json that slot r's atomicWriteJson is
\* saving, at any point from the call to after its return. It remembers its
\* last read.
ReadNotes(r) ==
    /\ h[r].pc \in {"mkdir", "open", "write", "rename", "unlink", "done"}
    /\ h[r].tool \in {"oscribble_complete_task", "oscribble_uncomplete_task"}
    /\ h[r].at # <<>>
    /\ seen' = [NoSeen EXCEPT
                   !.slot = r, !.pc = h[r].pc,
                   !.exists = fileExists(files, filePath(r)),
                   !.content = IF fileExists(files, filePath(r))
                               THEN files[filePath(r)] ELSE <<>>]
    /\ seen' # seen
    /\ UNCHANGED <<calc, files, dirs, h, left>>

\* ------------------------------------------------------------ the server

\* The registry as the application left it.
RegistryFile == ProjectsFile :> stringifyRegistry(TheProjects)

\* The notes.json files project p1 may start with.
InitialNotes ==
    { NotesPath("p1") :> stringifyNotes(NotesOf(f, 1, <<>>)) : f \in DocForests }

\* The server and the application before the first request: the storage root
\* `fs`, project p1's directory, `requests` requests to come.
InitServer(fs, requests, ext, faults) ==
    /\ calc = NoCalc
    /\ files = fs
    /\ dirs = {"p1"}
    /\ h = [r \in Slots |-> NoRequest]
    /\ left = [requests |-> requests, ext |-> ext, faults |-> faults]
    /\ seen = NoSeen

\* Set-checked requests, one after the other, while the application saves
\* the same notes.json.
InitChecked ==
    \E notes \in InitialNotes \cup {<<>>} :
        InitServer(RegistryFile @@ notes, MaxRequests, MaxExt, 0)

NextChecked ==
    \/ \E r \in Serial :
          \/ StartSetChecked(r)
          \/ GetProjectPath(r)
          \/ FileExists(r)
          \/ LoadJson(r)
          \/ Mkdir(r)
          \/ Open(r)
          \/ Write(r)
          \/ Rename(r)
    \/ ExtSaveNotes

Spec == InitChecked /\ [][NextChecked]_vars

\* One set-checked request whose file-system calls may fail, and a reader of
\* the notes.json it saves.
InitSave ==
    \E notes \in InitialNotes \cup {<<>>} :
        InitServer(RegistryFile @@ notes, 1, 0, MaxFaults)

NextSave ==
    \E r \in Serial :
       \/ StartSetChecked(r)
       \/ GetProjectPath(r)
       \/ FileExists(r)
       \/ LoadJson(r)
       \/ Mkdir(r)
       \/ Open(r)
       \/ Write(r)
       \/ Rename(r)
       \/ Unlink(r)
       \/ ReadNotes(r)

SpecSave == InitSave /\ [][NextSave]_vars

\* Append requests, one after the other, while another process appends to
\* the same raw.txt.
InitRaw ==
    \E raw \in { RawPath("p1") :> c : c \in InitialRaws } \cup {<<>>} :
        InitServer(RegistryFile @@ raw, MaxAppends, MaxExt, 0)

NextRaw ==
    \/ \E r \in Serial :
          \/ StartAddRaw(r)
          \/ GetProjectPath(r)
          \/ MkdirProject(r)
          \/ RawExists(r)
          \/ ReadFile(r)
          \/ AppendFile(r)
    \/ ExtAppendRaw

SpecRaw == InitRaw /\ [][NextRaw]_vars

\* Requests of every tool, one after the other, with one file-system call
\* that may fail: slot r takes the next request when no request is under
\* way and it is r's turn.
Turn(r) ==
    /\ \A q \in Slots : h[q].pc \in {"idle", "done"}
    /\ r = 1 + ((MaxCalls - left.requests) % 2)

\* A registry text that is not well-formed JSON: a write that stopped.
MalformedRegistry == SubSeq(stringifyRegistry(TheProjects), 1, 3)

\* The notes.json of project p2, well-formed.
P2Notes ==
    [NotesOf(<<TaskNode("a", FALSE, 0, <<TaskNode("b", TRUE, 1, <<>>)>>)>>, 1, <<>>)
        EXCEPT !.project_path = "/work/p2"]

\* The notes.json texts project p1 may hold when requests of every tool are
\* served: well-formed, or cut short.
P1NotesTexts ==
    LET text == stringifyNotes(NotesOf(<<TaskNode("a", FALSE, 0, <<>>),
                                         TaskNode("b", TRUE, 0, <<>>)>>, 1, <<>>))
    IN {text, SubSeq(text, 1, Len(text) - 1)}

InitTools ==
    \E registry \in {ProjectsFile :> stringifyRegistry(TheProjects),
                     ProjectsFile :> MalformedRegistry, <<>>},
       notes \in {NotesPath("p1") :> t : t \in P1NotesTexts},
       raw \in {RawPath("p1") :> <<"first">>, <<>>} :
        /\ calc = NoCalc
        /\ files = registry @@ notes @@ raw
                      @@ (NotesPath("p2") :> stringifyNotes(P2Notes))
        /\ dirs = {"p1", "p2"}
        /\ h = [r \in Slots |-> NoRequest]
        /\ left = [requests |-> MaxCalls, ext |-> 0, faults |-> 1]
        /\ seen = NoSeen

NextTools ==
    \E r \in Slots :
       \/ Turn(r) /\ StartWithoutArguments(r)
       \/ Turn(r) /\ StartUnknownTool(r)
       \/ Turn(r) /\ StartListProjects(r)
       \/ Turn(r) /\ StartListTasks(r)
       \/ Turn(r) /\ StartGetTaskDetails(r)
       \/ Turn(r) /\ StartSetChecked(r)
       \/ Turn(r) /\ StartAddRaw(r)
       \/ RegistryExists(r)
       \/ LoadRegistry(r)
       \/ GetProjectPath(r)
       \/ ListExists(r)
       \/ ListLoad(r)
       \/ DetailsExists(r)
       \/ DetailsLoad(r)
       \/ FileExists(r)
       \/ LoadJson(r)
       \/ Mkdir(r)
       \/ Open(r)
       \/ Write(r)
       \/ Rename(r)
       \/ Unlink(r)
       \/ MkdirProject(r)
       \/ RawExists(r)
       \/ ReadFile(r)
       \/ AppendFile(r)

SpecTools == InitTools /\ [][NextTools]_vars

\* List-projects requests, with arguments and without, one after the other,
\* on every registry of up to MaxProjects projects and on no registry.
InitRegistry ==
    \E registry \in {ProjectsFile :> stringifyRegistry(reg) : reg \in Registries}
                       \cup {<<>>} :
        /\ calc = NoCalc
        /\ files = registry
        /\ dirs = {}
        /\ h = [r \in Slots |-> NoRequest]
        /\ left = [requests |-> MaxCalls, ext |-> 0, faults |-> 0]
        /\ seen = NoSeen

NextRegistry ==
    \E r \in Slots :
       \/ Turn(r) /\ StartWithoutArguments(r)
       \/ Turn(r) /\ StartListProjects(r)
       \/ RegistryExists(r)
       \/ LoadRegistry(r)

SpecRegistry == InitRegistry /\ [][NextRegistry]_vars

\* Requests that read the registry, one after the other, while the
\* application rewrites it: list-projects requests, and list-tasks requests,
\* which resolve a project name.
InitFresh ==
    \E reg \in AppRegistries :
        /\ calc = NoCalc
        /\ files = (ProjectsFile :> stringifyRegistry(reg))
                      @@ (NotesPath("p2") :> stringifyNotes(P2Notes))
        /\ dirs = {"p1", "p2"}
        /\ h = [r \in Slots |-> NoRequest]
        /\ left = [requests |-> MaxCalls, ext |-> MaxExt, faults |-> 0]
        /\ seen = NoSeen

NextFresh ==
    \/ \E r \in Slots :
          \/ Turn(r) /\ StartListProjects(r)
          \/ Turn(r) /\ StartListTasks(r)
          \/ RegistryExists(r)
          \/ LoadRegistry(r)
          \/ GetProjectPath(r)
          \/ ListExists(r)
          \/ ListLoad(r)
    \/ ExtSaveRegistry

SpecFresh == InitFresh /\ [][NextFresh]_vars

\* Two set-checked requests delivered to the server, the second of which
\* may arrive while the handler of the first is waiting at an await.
InitTwo ==
    /\ calc = NoCalc
    /\ files = RegistryFile
                  @@ (NotesPath("p1") :> stringifyNotes(NotesOf(
                         <<TaskNode("a", FALSE, 0, <<>>),
                           TaskNode("b", TRUE, 0, <<>>)>>, 1, <<>>)))
    /\ dirs = {"p1"}
    /\ h = [r \in Slots |-> NoRequest]
    /\ left = [requests |-> 2, ext |-> 0, faults |-> 0]
    /\ seen = NoSeen

NextTwo ==
    \E r \in Slots :
       \/ StartSetChecked(r)
       \/ GetProjectPath(r)
       \/ FileExists(r)
       \/ LoadJson(r)
       \/ Mkdir(r)
       \/ Open(r)
       \/ Write(r)
       \/ Rename(r)

SpecTwo == InitTwo /\ [][NextTwo]_vars

\* One set-checked request racing with the application, which loads p1's
\* notes.json while the request is in progress and saves its own edit of
\* what it loaded.
InitRace ==
    \E notes \in InitialNotes :
        InitServer(RegistryFile @@ notes, 1, MaxExt, 0)

NextRace ==
    \/ \E r \in Serial :
          \/ StartSetChecked(r)
          \/ GetProjectPath(r)
          \/ FileExists(r)
          \/ LoadJson(r)
          \/ Mkdir(r)
          \/ Open(r)
          \/ Write(r)
          \/ Rename(r)
    \/ AppLoadNotes
    \/ AppSaveNotes

SpecRace == InitRace /\ [][NextRace]_vars

\* Set-checked requests while the application deletes or replaces p1's
\* notes.json at any point of the request.
InitDelete ==
    \E notes \in InitialNotes \cup {<<>>} :
        InitServer(RegistryFile @@ notes, MaxRequests, MaxExt, 0)

NextDelete ==
    \/ \E r \in Serial :
          \/ StartSetChecked(r)
          \/ GetProjectPath(r)
          \/ FileExists(r)
          \/ LoadJson(r)
          \/ Mkdir(r)
          \/ Open(r)
          \/ Write(r)
          \/ Rename(r)
    \/ AppDeleteNotes
    \/ ExtSaveNotes

SpecDelete == InitDelete /\ [][NextDelete]_vars

\* The tree operations alone, applied to every forest of up to MaxNodes nodes.
InitTree ==
    /\ CalcInit
    /\ files = RegistryFile
    /\ dirs = {}
    /\ h = [r \in Slots |-> NoRequest]
    /\ left = [requests |-> 0, ext |-> 0, faults |-> 0]
    /\ seen = NoSeen

SpecTree == InitTree /\ [][CalcNext]_vars

\* ------------------------------------------------- properties of the handlers

\* The two documents of slot r's save: the text notes.json had when the
\* request arrived, and the text of the document being saved.
OldText(r) == h[r].files0[filePath(r)]
NewText(r) == stringifyNotes(h[r].notesData)

\* Slot r's request has called atomicWriteJson.
Saving(r) ==
    /\ h[r].tool \in {"oscribble_complete_task", "oscribble_uncomplete_task"}
    /\ h[r].at # <<>>

\* C1: while atomicWriteJson replaces an existing notes.json and nothing else
\* writes to it, a reader that opens notes.json at any moment, before, during
\* or after the call, finds the file and reads either the whole old text or
\* the whole new text; the path never holds an empty or a truncated text.
C1_ReaderSeesOldOrNew ==
    \A r \in Slots :
        /\ (seen.slot = r /\ ~h[r].foreign) =>
              /\ seen.exists
              /\ seen.content \in {OldText(r), NewText(r)}
              /\ parseNotes(seen.content).ok
        /\ (Saving(r) /\ ~h[r].foreign) =>
              /\ fileExists(files, filePath(r))
              /\ files[filePath(r)] \in {OldText(r), NewText(r)}

\* A reader read notes.json while the temp file was open and still empty, it
\* read the old text, and the save then succeeded with a different text.
C1_Witness ==
    \E r \in Slots :
        /\ seen.slot = r /\ seen.pc = "write"
        /\ seen.content = OldText(r) /\ OldText(r) # NewText(r)
        /\ h[r].pc = "done" /\ ~h[r].result.isError
        /\ files[filePath(r)] = NewText(r)

\* C2: when atomicWriteJson fails once its try block is entered (the temp
\* file cannot be opened, the write stops part-way, or the rename fails), the
\* target holds afterwards what it held before the call, and the caller
\* gets that failure.
C2_FailedSaveKeepsTarget ==
    \A r \in Slots :
        (h[r].pc = "done" /\ Saving(r) /\ h[r].error # "" /\ ~h[r].foreign) =>
            /\ fileExists(files, filePath(r))
            /\ files[filePath(r)] = OldText(r)
            /\ h[r].result.isError
            /\ h[r].result.msg = h[r].error

\* A write stopped part-way and the unlink failed as well: the temp file is
\* left with a proper, non-empty part of the new text, which differs from the
\* old text.
C2_Witness ==
    \E r \in Slots :
        /\ h[r].pc = "done" /\ Saving(r) /\ h[r].error = "EIO"
        /\ OldText(r) # NewText(r)
        /\ fileExists(files, tmpPath(r))
        /\ Len(files[tmpPath(r)]) \in 1..(Len(NewText(r)) - 1)

\* The request of slot r has loaded a document.
Loaded(r) ==
    /\ h[r].tool \in {"oscribble_complete_task", "oscribble_uncomplete_task"}
    /\ h[r].notesData # NoNotes

\* C3: a set-checked request whose task id no task of the loaded forest has
\* ends with the result "Task not found" with the id, not an error, and has
\* made no call that writes: the files and directories are those it found.
C3_NotFoundWritesNothing ==
    \A r \in Slots :
        (/\ h[r].pc = "done" /\ Loaded(r)
         /\ MatchesOf(h[r].notesData.tasks, h[r].task_id) = {}) =>
            /\ h[r].result = [isError |-> FALSE, msg |-> "Task not found",
                              text |-> h[r].task_id, items |-> <<>>]
            /\ h[r].writes = 0
            /\ ~h[r].foreign => (files = h[r].files0 /\ dirs = h[r].dirs0)

\* A request did not find its task in a forest that has tasks.
C3_Witness ==
    \E r \in Slots :
        /\ h[r].pc = "done" /\ Loaded(r) /\ ~h[r].foreign
        /\ h[r].notesData.tasks # <<>>
        /\ MatchesOf(h[r].notesData.tasks, h[r].task_id) = {}
        /\ h[r].result.msg = "Task not found"

\* The request of slot r ended with its confirmation.
Confirmed(r) ==
    /\ h[r].pc = "done"
    /\ ~h[r].result.isError
    /\ h[r].result.msg \in {"completed", "uncompleted"}

\* C4: after a confirmed set-checked request that nothing interfered with,
\* notes.json parses to the document it held before, but for the checked
\* field of the located task, which has the requested value: version,
\* project_path and last_modified are the same, the forest has the same
\* shape, every task has the same id, text, indent and metadata, every other
\* task the same checked; and no other file is created, changed or removed.
C4_OnlyCheckedChanges ==
    \A r \in Slots :
        (Confirmed(r) /\ ~h[r].foreign) =>
            LET old == parseNotes(OldText(r)).val
                new == parseNotes(files[filePath(r)])
            IN /\ new.ok
               /\ new.val.version = old.version
               /\ new.val.project_path = old.project_path
               /\ new.val.last_modified = old.last_modified
               /\ new.val.last_formatted_raw = old.last_formatted_raw
               /\ Paths(new.val.tasks) = Paths(old.tasks)
               /\ h[r].at \in Paths(old.tasks)
               /\ NodeAt(old.tasks, h[r].at).id = h[r].task_id
               /\ \A p \in Paths(old.tasks) :
                     /\ SameLabel(NodeAt(new.val.tasks, p), NodeAt(old.tasks, p))
                     /\ NodeAt(new.val.tasks, p).checked =
                           IF p = h[r].at THEN h[r].complete
                           ELSE NodeAt(old.tasks, p).checked
               /\ DOMAIN files = DOMAIN h[r].files0
               /\ \A q \in DOMAIN files \ {filePath(r)} : files[q] = h[r].files0[q]

\* A request changed the checked field of a task that has a child with
\* metadata whose checked field differs from the requested value, in a
\* document that has a last_formatted_raw.
C4_Witness ==
    \E r \in Slots :
        /\ Confirmed(r) /\ ~h[r].foreign
        /\ parseNotes(OldText(r)).val.last_formatted_raw # <<>>
        /\ LET old == parseNotes(OldText(r)).val.tasks IN
             /\ NodeAt(old, h[r].at).checked # h[r].complete
             /\ NodeAt(old, h[r].at).children # <<>>
             /\ NodeAt(old, h[r].at).children[1].checked # h[r].complete
             /\ NodeAt(old, h[r].at).children[1].metadata # <<>>

\* The text ends with a newline.
EndsInLF(text) == text # <<>> /\ text[Len(text)] = "\n"

\* The log after the text is appended to the log P.
Appended(P, text) ==
    P \o (IF P # <<>> /\ ~EndsInLF(P) THEN <<"\n">> ELSE <<>>)
      \o text
      \o (IF EndsInLF(text) THEN <<>> ELSE <<"\n">>)

\* C10: after an append request that nothing interfered with, raw.txt is the
\* log it held before (empty when there was none), then a newline when that
\* log was not empty and did not end in one, then the text, then a newline
\* when the text did not end in one.
C10_AppendKeepsLines ==
    \A r \in Slots :
        (/\ h[r].pc = "done" /\ h[r].tool = "oscribble_add_raw_task"
         /\ ~h[r].result.isError /\ ~h[r].foreign) =>
            LET P == IF fileExists(h[r].files0, rawFile(r))
                     THEN h[r].files0[rawFile(r)] ELSE <<>>
            IN /\ fileExists(files, rawFile(r))
               /\ files[rawFile(r)] = Appended(P, h[r].task_text)
               /\ h[r].result.msg = "Added raw task"

\* A text without a newline was appended to a log that ended in the middle
\* of a line.
C10_Witness ==
    \E r \in Slots :
        /\ h[r].pc = "done" /\ h[r].tool = "oscribble_add_raw_task"
        /\ ~h[r].result.isError /\ ~h[r].foreign
        /\ fileExists(h[r].files0, rawFile(r))
        /\ h[r].files0[rawFile(r)] = <<"first">>
        /\ files[rawFile(r)] = <<"first", "\n", "buy milk", "\n">>

\* ------------------------------------------- properties of the whole server

\* The project directories a request may name.
ProjectDirs == {"p1", "p2", "P1"}

\* C11: in every step of a handler of any tool, a raw.txt that exists still
\* exists afterwards and its text before the step is a prefix of its text
\* after it; and a raw.txt comes into existence only by the appendFile of an
\* append request.
C11_RawLogOnlyGrows ==
    [][\A p \in ProjectDirs :
          LET raw == RawPath(p) IN
          /\ fileExists(files, raw) =>
                /\ fileExists(files', raw)
                /\ IsPrefix(files[raw], files'[raw])
          /\ (~fileExists(files, raw) /\ fileExists(files', raw)) =>
                \E r \in Slots :
                    /\ h[r].tool = "oscribble_add_raw_task"
                    /\ h[r].pc = "appendFile" /\ h'[r].pc = "done"]_vars

\* An append request made an existing log longer, after a set-checked
\* request that saved the notes of the same project.
C11_Witness ==
    /\ h[1].pc = "done" /\ h[1].result.msg \in {"completed", "uncompleted"}
    /\ h[1].projectPath = "p1"
    /\ h[2].pc = "done" /\ h[2].tool = "oscribble_add_raw_task"
    /\ h[2].projectPath = "p1"
    /\ fileExists(h[2].files0, RawPath("p1"))
    /\ Len(files[RawPath("p1")]) > Len(h[2].files0[RawPath("p1")])

\* The request of slot r named a project: it has ended, and not for missing
\* arguments or an unknown tool.
NamedProject(r) ==
    /\ h[r].pc = "done"
    /\ h[r].tool \in Tools \ {"oscribble_list_projects"}
    /\ h[r].result.msg # "Missing arguments"

\* The registry the request of slot r found: parsed, or not ok when
\* projects.json was absent or not well-formed.
RegistryFound(r) ==
    IF fileExists(h[r].files0, ProjectsFile)
    THEN parseRegistry(h[r].files0[ProjectsFile]) ELSE ParseFail

\* No entry of the registry found has exactly the name the request gave.
NoExactEntry(r) ==
    LET reg == RegistryFound(r) IN
    ~(reg.ok /\ \E i \in 1..Len(reg.val) : reg.val[i].name = h[r].project_name)

\* The request of slot r read no document and made no call that writes:
\* until a later request writes, the files and directories are those it
\* found.
TouchedNothing(r) ==
    /\ h[r].writes = 0
    /\ h[r].notesData = NoNotes
    /\ ~h[r].foreign => (files = h[r].files0 /\ dirs = h[r].dirs0)

\* C12 as stated: whenever no registry entry has exactly the given name, the
\* request ends with the error "Project not found" naming the project, and
\* has touched nothing.
C12_Original ==
    \A r \in Slots :
        (NamedProject(r) /\ NoExactEntry(r)) =>
            /\ h[r].result.isError
            /\ h[r].result.msg = "Project not found"
            /\ h[r].result.text = h[r].project_name
            /\ TouchedNothing(r)

\* C12, amended: when projects.json is a well-formed registry without an
\* entry of exactly the given name, the request ends with the error "Project
\* not found" naming the project; when projects.json is absent or not
\* well-formed, it ends with the error of the read or of the parse; in both
\* cases it has read no document and written nothing.
C12_UnknownProject ==
    \A r \in Slots :
        (NamedProject(r) /\ NoExactEntry(r)) =>
            /\ h[r].result.isError
            /\ TouchedNothing(r)
            /\ IF RegistryFound(r).ok
               THEN /\ h[r].result.msg = "Project not found"
                    /\ h[r].result.text = h[r].project_name
               ELSE h[r].result.msg =
                       IF fileExists(h[r].files0, ProjectsFile)
                       THEN "SyntaxError" ELSE "ENOENT"

\* An append request named P1 while the registry has p1, whose directory and
\* log exist.
C12_Witness ==
    \E r \in Slots :
        /\ NamedProject(r) /\ NoExactEntry(r) /\ RegistryFound(r).ok
        /\ h[r].tool = "oscribble_add_raw_task"
        /\ h[r].project_name = "P1"
        /\ fileExists(files, RawPath("p1"))
        /\ h[r].result.msg = "Project not found"

\* How many times x occurs in a sequence.
Count(seq, x) == Cardinality({i \in 1..Len(seq) : seq[i] = x})

\* C13: a request that ends with the registry unchanged since it arrived
\* answers from the registry as it is now, whatever the registry was at the
\* requests before it: a list-projects result lists the entries projects.json
\* holds now, with their last_accessed, and a project name resolves if and
\* only if projects.json now has an entry of that name.
C13_RegistryReadFresh ==
    \A r \in Slots :
        (h[r].pc = "done" /\ ~h[r].foreign) =>
            LET reg == parseRegistry(files[ProjectsFile]).val
                items == h[r].result.items
            IN /\ h[r].tool = "oscribble_list_projects" =>
                     /\ h[r].result.msg = "Oscribble Projects"
                     /\ Len(items) = Len(reg)
                     /\ \A i \in 1..Len(reg) : Count(items, reg[i]) = 1
               /\ h[r].tool = "oscribble_list_tasks" =>
                     (h[r].result.msg = "Project not found"
                        <=> ~\E i \in 1..Len(reg) : reg[i].name = h[r].project_name)

\* Two list-projects requests, between which the application raised p1's
\* last_accessed: the first lists p2 first, the second p1.
C13_Witness ==
    /\ h[1].pc = "done" /\ h[1].tool = "oscribble_list_projects"
    /\ h[2].pc = "done" /\ h[2].tool = "oscribble_list_projects"
    /\ h[1].foreign /\ ~h[2].foreign
    /\ Len(h[1].result.items) = 2 /\ Len(h[2].result.items) = 2
    /\ h[1].result.items[1].name = "p2"
    /\ h[2].result.items[1].name = "p1"

\* C14: a list-projects result lists the entries of the registry, each as
\* many times as the registry has it (once), and no project is listed before
\* one with a greater last_accessed, a missing last_accessed being 0.
C14_ListSortedOnce ==
    \A r \in Slots :
        (/\ h[r].pc = "done" /\ h[r].tool = "oscribble_list_projects"
         /\ h[r].result.msg = "Oscribble Projects") =>
            LET reg == parseRegistry(files[ProjectsFile]).val
                items == h[r].result.items
            IN /\ Len(items) = Len(reg)
               /\ \A i \in 1..Len(reg) : Count(items, reg[i]) = Count(reg, reg[i])
               /\ \A i \in 1..(Len(items) - 1) :
                     items[i].last_accessed >= items[i + 1].last_accessed

\* A list of two projects in the order opposite to the registry's, the
\* second of which was never accessed.
C14_Witness ==
    \E r \in Slots :
        /\ h[r].pc = "done" /\ h[r].result.msg = "Oscribble Projects"
        /\ LET reg == parseRegistry(files[ProjectsFile]).val IN
             /\ Len(reg) = 2 /\ Len(h[r].result.items) = 2
             /\ reg[1].last_accessed = 0
             /\ reg[2].last_accessed > 0
             /\ h[r].result.items[1] = reg[2]
             /\ h[r].result.items[2] = reg[1]

\* C15: a list-projects request that finds no projects.json, or one with an
\* empty array, ends with a "no projects" result that is not an error.
C15_NoProjectsIsNoError ==
    \A r \in Slots :
        (/\ h[r].pc = "done" /\ h[r].tool = "oscribble_list_projects"
         /\ \/ ~fileExists(files, ProjectsFile)
            \/ parseRegistry(files[ProjectsFile]).val = <<>>) =>
            /\ ~h[r].result.isError
            /\ h[r].result.msg \in {"No projects file", "No projects found"}

\* C16: when two set-checked requests on two different tasks of the same
\* project have both been confirmed, notes.json holds both changes: each of
\* the two tasks has the checked value its request asked for.
C16_BothChangesKept ==
    (/\ Confirmed(1) /\ Confirmed(2)
     /\ h[1].projectPath = h[2].projectPath
     /\ h[1].at # h[2].at) =>
        LET doc == parseNotes(files[filePath(1)]) IN
        /\ doc.ok
        /\ NodeAt(doc.val.tasks, h[1].at).checked = h[1].complete
        /\ NodeAt(doc.val.tasks, h[2].at).checked = h[2].complete

\* The document slot r's request loaded is the one the application loaded,
\* both have saved, and their documents differ.
Raced(r) ==
    /\ h[r].pc = "done"
    /\ Saving(r)
    /\ seen.pc = "saved"
    /\ fileExists(h[r].files0, filePath(r))
    /\ seen.content = OldText(r)
    /\ LET old == parseNotes(OldText(r)).val
       IN NewText(r) = stringifyNotes(
              [old EXCEPT !.tasks = assignChecked(@, h[r].at, h[r].complete)])
    /\ NewText(r) # seen.saved

\* C17: when a set-checked request and the application have loaded the same
\* notes.json and both saved, the request is confirmed without an error and
\* notes.json is exactly the whole document of the one whose rename came
\* last: the application's if it saved after the request's rename, the
\* request's otherwise. The other writer's document is gone.
C17_LastRenameWins ==
    \A r \in Serial :
        Raced(r) =>
            /\ Confirmed(r)
            /\ fileExists(files, filePath(r))
            /\ files[filePath(r)] = IF seen.last THEN seen.saved ELSE NewText(r)

\* Both orders of the two renames, each losing a change the other made: the
\* request checked one task and the application the other.
C17_Witness ==
    \A r \in Serial :
        /\ Raced(r)
        /\ ~seen.last
        /\ files[filePath(r)] = NewText(r)
        /\ parseNotes(seen.saved).val.tasks # parseNotes(OldText(r)).val.tasks
        /\ parseNotes(seen.saved).val.tasks
              # assignChecked(parseNotes(OldText(r)).val.tasks, h[r].at, h[r].complete)
        /\ parseNotes(files[filePath(r)]).val.tasks
              = assignChecked(parseNotes(OldText(r)).val.tasks, h[r].at, h[r].complete)
        /\ parseNotes(files[filePath(r)]).val.tasks # parseNotes(OldText(r)).val.tasks

C17_WitnessAppLast ==
    \A r \in Serial :
        /\ Raced(r)
        /\ seen.last
        /\ files[filePath(r)] = seen.saved
        /\ parseNotes(NewText(r)).val.tasks # parseNotes(OldText(r)).val.tasks
        /\ parseNotes(seen.saved).val.tasks # parseNotes(NewText(r)).val.tasks

\* The messages of failures: thrown by a handler or by the file system.
Failures ==
    {"Missing arguments", "Unknown tool", "Project not found", "ENOENT",
     "SyntaxError", "EIO"}

\* Slot q's request failed.
Failed(q) == h[q].result.msg \in Failures

\* What a list-tasks or get-detail request returns when it is served on the
\* file store fs and nothing else happens: the registry is read and searched,
\* then the project's notes.json is looked for, loaded and rendered.
ResultOn(fs, rec) ==
    LET list == rec.tool = "oscribble_list_tasks"
        err(msg, text) == [isError |-> TRUE, msg |-> msg, text |-> text, items |-> <<>>]
        ok(msg, text, items) == [isError |-> FALSE, msg |-> msg, text |-> text, items |-> items]
        projects == parseRegistry(fs[ProjectsFile])
        notesFile == NotesPath(rec.project_name)
        notesData == parseNotes(fs[notesFile])
        tasks == applyFilter(notesData.val.tasks, rec.filter_status)
        found == findTaskById(notesData.val.tasks, rec.task_id)
    IN IF ~fileExists(fs, ProjectsFile) THEN err("ENOENT", "")
       ELSE IF ~projects.ok THEN err("SyntaxError", "")
       ELSE IF \A i \in 1..Len(projects.val) : projects.val[i].name # rec.project_name
       THEN err("Project not found", rec.project_name)
       ELSE IF ~fileExists(fs, notesFile)
       THEN IF list THEN ok("No tasks found, no notes file", rec.project_name, <<>>)
            ELSE ok("Notes file not found", "", <<>>)
       ELSE IF ~notesData.ok THEN err("SyntaxError", "")
       ELSE IF list
       THEN IF notesData.val.tasks = <<>> THEN ok("No tasks found", rec.project_name, <<>>)
            ELSE IF tasks = <<>> THEN ok("No filtered tasks found", rec.filter_status, <<>>)
            ELSE ok("Tasks", "", tasks)
       ELSE IF found = null THEN ok("Task not found", rec.task_id, <<>>)
            ELSE ok("Task Details", "", <<found[1].task>>)

\* The first request was served by slot 1 and failed, and the second, a
\* list-tasks or get-detail request on project p2, has returned from slot 2.
ServedAfterFailure ==
    /\ left.requests = MaxCalls - 2
    /\ Failed(1)
    /\ h[1].project_name # "p2"
    /\ h[2].pc = "done"
    /\ h[2].tool \in {"oscribble_list_tasks", "oscribble_get_task_details"}
    /\ h[2].project_name = "p2"

\* C18: a request that fails has returned, with an error result; and a later
\* list-tasks or get-detail request on another project returns what it
\* returns on the files as they were before the failed request arrived.
C18_FailureNotContagious ==
    /\ \A q \in Slots : Failed(q) => (h[q].pc = "done" /\ h[q].result.isError)
    /\ ServedAfterFailure => h[2].result = ResultOn(h[1].files0, h[2])

\* A set-checked request on project p1 failed on a notes.json cut short, and
\* the tasks of project p2 were listed after it.
C18_Witness ==
    /\ ServedAfterFailure
    /\ h[1].tool = "oscribble_complete_task"
    /\ h[1].project_name = "p1"
    /\ h[1].result.msg = "SyntaxError"
    /\ fileExists(h[1].files0, ProjectsFile)
    /\ parseRegistry(h[1].files0[ProjectsFile]).ok
    /\ ~parseNotes(h[1].files0[NotesPath("p1")]).ok
    /\ h[2].tool = "oscribble_list_tasks"
    /\ ~h[2].result.isError
    /\ h[2].result.items = P2Notes.tasks

\* The same after a rename or write that failed.
C18_WitnessIO ==
    /\ ServedAfterFailure
    /\ h[1].result.msg = "EIO"
    /\ h[2].result.msg = "Task Details"

\* C19: no step of this layer creates a notes.json: after every step that is
\* not the application's, a project's notes.json exists only if it existed
\* before the step.
C19_NeverCreatesNotes ==
    [][left'.ext = left.ext =>
          \A p \in ProjectDirs :
              fileExists(files', NotesPath(p)) => fileExists(files, NotesPath(p))]_vars

\* C20: once an append request has returned, every entry of this layer in
\* raw.txt starts at the beginning of a line and ends with a newline,
\* whatever the application appended in between.
C20_EntriesOwnLines ==
    \A r \in Serial :
        (/\ h[r].pc = "done" /\ h[r].tool = "oscribble_add_raw_task"
         /\ ~h[r].result.isError) =>
            LET log == files[rawFile(r)]
            IN \A i \in 1..Len(log) :
                  log[i] = "buy milk" =>
                     /\ i = 1 \/ log[i - 1] = "\n"
                     /\ i < Len(log) /\ log[i + 1] = "\n"

\* The temp files in the directory of the notes.json slot r's request saves.
TempFiles(r) == { nm \in TmpNames : fileExists(files, <<dirname(r), nm>>) }

\* The file-system calls that failed so far.
FaultsUsed == MaxFaults - left.faults

\* C21: a save that failed at the temp-file write or at the rename ends with
\* the failure of that call as the request's error, after one call of each
\* of mkdir, writeFile, rename and unlink at most; when no other call failed
\* (the unlink succeeded) no temp file is left in the directory; and after a
\* save that succeeded no temp file is left either.
C21_TempFileCleanedUp ==
    \A r \in Serial :
        (h[r].pc = "done" /\ Saving(r)) =>
            /\ h[r].error # "" =>
                  /\ h[r].result.isError
                  /\ h[r].result.msg = h[r].error
                  /\ h[r].writes <= 4
                  /\ FaultsUsed = 1 => TempFiles(r) = {}
            /\ ~h[r].result.isError => TempFiles(r) = {}

\* The rename failed after the temp file was written whole, and the unlink
\* removed it: the request ends with the rename's failure.
C21_Witness ==
    \E r \in Serial :
        /\ h[r].pc = "done" /\ Saving(r)
        /\ h[r].error = "EIO" /\ h[r].result.msg = "EIO"
        /\ h[r].writes = 4
        /\ FaultsUsed = 1
        /\ h[r].tmpName # ""
        /\ TempFiles(r) = {}

\* The unlink failed as well: the temp file stays and the error is still the
\* first failure's.
C21_WitnessUnlinkFailed ==
    \E r \in Serial :
        /\ h[r].pc = "done" /\ Saving(r)
        /\ h[r].error = "EIO" /\ h[r].result.msg = "EIO"
        /\ FaultsUsed = 2
        /\ TempFiles(r) = {h[r].tmpName}

\* C22: when findTaskById returns a pair, its sequence is the one of the
\* searched forest that directly contains the returned node: the forest
\* itself for a top-level node, the children of the node's parent otherwise;
\* and the returned node is the element of that sequence at the node's index.
C22_SiblingSequence ==
    (calc.pc = "found" /\ calc.found # null) =>
        LET at == calc.found[1].at
            parent == SubSeq(at, 1, Len(at) - 1)
        IN /\ at \in Paths(calc.tasks)
           /\ calc.found[1].tasks = SiblingsAt(calc.tasks, at)
           /\ calc.found[1].tasks =
                 IF Len(at) = 1 THEN calc.tasks
                 ELSE NodeAt(calc.tasks, parent).children
           /\ calc.found[1].tasks[at[Len(at)]] = calc.found[1].task
           /\ calc.found[1].task = NodeAt(calc.tasks, at)

\* A node found below the top level, among siblings: the returned sequence
\* is its parent's children, which is not the forest.
C22_Witness ==
    /\ calc.pc = "found" /\ calc.found # null
    /\ Len(calc.found[1].at) = 2
    /\ Len(calc.found[1].tasks) = 2
    /\ calc.found[1].tasks # calc.tasks
    /\ calc.found[1].tasks = calc.tasks[calc.found[1].at[1]].children

\* The tools that read.
ReadTools ==
    {"oscribble_list_projects", "oscribble_list_tasks", "oscribble_get_task_details"}

\* C23: no step of a list-projects, list-tasks or get-detail request changes
\* a file or a directory, and a list-tasks with filter "all" that renders
\* tasks renders the forest that notes.json holds, whatever was listed with
\* a filter before.
C23_ReadsLeaveFiles ==
    [][\A r \in Slots :
          (h'[r].tool \in ReadTools /\ h'[r].pc # h[r].pc) =>
              /\ files' = files
              /\ dirs' = dirs
              /\ (/\ h'[r].pc = "done"
                  /\ h'[r].tool = "oscribble_list_tasks"
                  /\ h'[r].filter_status = "all"
                  /\ h'[r].result.msg = "Tasks") =>
                    h'[r].result.items =
                       parseNotes(files'[NotesPath(h'[r].project_name)]).val.tasks]_vars

\* The tasks of project p2 were listed with filter "unchecked", which pruned
\* the loaded forest, and then with filter "all": the second listing shows
\* the whole forest and the files are those the first request found.
C23_Witness ==
    /\ left.requests = MaxCalls - 2
    /\ h[1].pc = "done" /\ h[2].pc = "done"
    /\ h[1].tool = "oscribble_list_tasks" /\ h[2].tool = "oscribble_list_tasks"
    /\ h[1].project_name = "p2" /\ h[2].project_name = "p2"
    /\ h[1].filter_status = "unchecked" /\ h[2].filter_status = "all"
    /\ h[1].result.msg = "Tasks"
    /\ h[1].result.items # P2Notes.tasks
    /\ h[1].notesData.tasks # P2Notes.tasks
    /\ h[2].result.items = P2Notes.tasks
    /\ files = h[1].files0
    /\ dirs = h[1].dirs0

====
